---- MODULE Spec2Model ----
(***************************************************************************)
(* Monte Carlo pricing of a European call option under the stochastic-     *)
(* volatility log-return model of day2/homework/european_call_option.ipynb *)
(*                                                                         *)
(*     P_0 = beta^n E max{S_n - K, 0}                                      *)
(*     ln(S_{t+1}/S_t) = mu + sigma_t xi_{t+1}                             *)
(*     sigma_t = exp(h_t),   h_{t+1} = rho h_t + nu eta_{t+1}              *)
(*     E max{S_n - K, 0} ~ (1/M) sum_m max{S_n^m - K, 0}                   *)
(*                                                                         *)
(* Real numbers are exact rationals <<numerator, denominator>> in lowest   *)
(* terms with a positive denominator.  exp is the binary exponential 2^x,  *)
(* exact at the integers and linear between two consecutive integers: it   *)
(* is strictly positive, strictly increasing and has exp(0) = 1, and it is *)
(* not the identity.  The normal innovations are drawn from small sets.    *)
(***************************************************************************)
EXTENDS Integers, Sequences, FiniteSets

\* ------------------------------------------------------------- bounds
\* The longest horizon n, the largest sample count M, the most steps n * M of
\* one run, and the number of workers of the parallel run.
MaxN == 3
MaxM == 3
MaxSteps == 4
NumWorkers == 2

\* --------------------------------------------------- exact arithmetic
RECURSIVE GCD(_, _)
GCD(a, b) == IF b = 0 THEN a ELSE GCD(b, a % b)

Abs(a) == IF a < 0 THEN -a ELSE a

Norm(r) ==
  LET g == GCD(Abs(r[1]), Abs(r[2]))
      s == IF r[2] < 0 THEN -1 ELSE 1
  IN  <<(s * r[1]) \div g, (s * r[2]) \div g>>

R(a, b) == Norm(<<a, b>>)

Zero == <<0, 1>>

One == <<1, 1>>

LCM(a, b) == (a \div GCD(a, b)) * b

RAdd(x, y) ==
  LET d == LCM(x[2], y[2])
  IN  Norm(<<x[1] * (d \div x[2]) + y[1] * (d \div y[2]), d>>)

RNeg(x) == <<-x[1], x[2]>>

RSub(x, y) == RAdd(x, RNeg(y))

RMul(x, y) ==
  LET g1 == GCD(Abs(x[1]), y[2])
      g2 == GCD(Abs(y[1]), x[2])
  IN  Norm(<<(x[1] \div g1) * (y[1] \div g2), (x[2] \div g2) * (y[2] \div g1)>>)

RDiv(x, y) == RMul(x, Norm(<<y[2], y[1]>>))

RLe(x, y) == x[1] * y[2] <= y[1] * x[2]

RLt(x, y) == x[1] * y[2] < y[1] * x[2]

RMax(x, y) == IF RLe(x, y) THEN y ELSE x

RECURSIVE RPow(_, _)
RPow(x, k) == IF k = 0 THEN One ELSE RMul(x, RPow(x, k - 1))

RECURSIVE Pow2(_)
Pow2(k) == IF k = 0 THEN 1 ELSE 2 * Pow2(k - 1)

\* A first-order exponential, 1 + x: not positive below -1.
ExpLinear(x) == RAdd(One, x)

\* exp: 2^q (1 + f) for x = q + f, q an integer and 0 <= f < 1.
Exp(x) ==
  LET q == x[1] \div x[2]
      r == x[1] % x[2]
  IN  IF q >= 0 THEN Norm(<<(x[2] + r) * Pow2(q), x[2]>>)
                ELSE Norm(<<x[2] + r, x[2] * Pow2(-q)>>)

\* --------------------------------------------------------- parameters
Betas == {R(1, 2), One}
Mus == {R(1, 2)}
S0s == {R(2, 1)}
H0s == {R(-1, 1), Zero, One}
Strikes == {Zero, One, R(3, 1)}
Rhos == {R(1, 2), One}
Nus == {Zero, R(1, 2)}
Xi == {R(-1, 1), One}
Eta == {R(-1, 1), One}

Params ==
  {q \in [beta : Betas, mu : Mus, S0 : S0s, h0 : H0s, K : Strikes,
           n : 0 .. MaxN, rho : Rhos, nu : Nus, M : 1 .. MaxM] :
     q.n * q.M <= MaxSteps}

\* The parameter sets of the parallel run.
ParParams ==
  {q \in Params : /\ q.beta = R(1, 2) /\ q.h0 = One /\ q.K = One
                  /\ q.nu = R(1, 2)}

\* ------------------------------------------------------ the recursion
\* The shock added unscaled: nu left out.
StepHUnscaled(rho, nu, h, eta) == RAdd(RMul(rho, h), eta)

\* h_{t+1} = rho h_t + nu eta_{t+1}
StepH(rho, nu, h, eta) == RAdd(RMul(rho, h), RMul(nu, eta))

\* sigma_t = exp(h_t)
Sigma(h) == Exp(h)

\* ln(S_{t+1}/S_t) = mu + sigma_t xi_{t+1}
LogReturn(mu, sigma, xi) == RAdd(mu, RMul(sigma, xi))

\* S_{t+1} = S_t exp(mu + sigma_t xi_{t+1})
StepS(S, mu, sigma, xi) == RMul(S, Exp(LogReturn(mu, sigma, xi)))

\* The step that takes the volatility of h_{t+1} for the return of step t.
PathStepUpdatedH(q, st, xi, eta) ==
  LET hn == StepH(q.rho, q.nu, st.h, eta)
  IN  [cur |-> st.cur, t |-> st.t + 1, h |-> hn,
       S |-> StepS(st.S, q.mu, Sigma(hn), xi)]

\* One step of one path: the return of step t uses sigma_t = exp(h_t).
PathStep(q, st, xi, eta) ==
  [cur |-> st.cur, t |-> st.t + 1,
   h |-> StepH(q.rho, q.nu, st.h, eta),
   S |-> StepS(st.S, q.mu, Sigma(st.h), xi)]

\* A path that goes on from the log-volatility the last one ended with.
PathStartKeepH(q, st, m) == [cur |-> m, t |-> 0, h |-> st.h, S |-> q.S0]

\* Every path starts from (h0, S0).
PathStart(q, st, m) == [cur |-> m, t |-> 0, h |-> q.h0, S |-> q.S0]

\* ------------------------------------------------------ the estimator
\* The payoff without its floor at zero.
PayoffNoFloor(S, K) == RSub(S, K)

\* The payoff of a put.
PayoffPut(S, K) == RMax(RSub(K, S), Zero)

\* max{S_n - K, 0}
Payoff(S, K) == RMax(RSub(S, K), Zero)

\* The running sum overwritten by the last payoff.
AccumulateOverwrite(sum, S, K) == Payoff(S, K)

\* sum_m payoff_m, one path at a time
Accumulate(sum, S, K) == RAdd(sum, Payoff(S, K))

\* beta * n in place of beta^n.
EstimateTimesN(beta, n, M, total) ==
  RMul(RMul(beta, R(n, 1)), RDiv(total, R(M, 1)))

\* P0_hat = beta^n (1/M) sum_m payoff_m
Estimate(beta, n, M, total) == RMul(RPow(beta, n), RDiv(total, R(M, 1)))

\* -------------------------------------------------------------- state
VARIABLES p, nw, next, loc, hist, price, order, total, nDone, result, pc

vars == <<p, nw, next, loc, hist, price, order, total, nDone, result, pc>>

Workers == 1 .. nw

Paths == 1 .. p.M

None == <<>>

\* A worker before its first path: its h and S hold the initial values.
Idle(q) == [cur |-> 0, t |-> 0, h |-> q.h0, S |-> q.S0]

NoHist == [xi |-> <<>>, eta |-> <<>>, sigma |-> <<>>, S |-> <<>>]

InitWith(k, PS) ==
  /\ p \in PS
  /\ nw = k
  /\ next = 1
  /\ loc = [w \in 1 .. k |-> Idle(p)]
  /\ hist = [m \in 1 .. MaxM + 1 |-> NoHist]
  /\ price = [m \in 1 .. MaxM + 1 |-> None]
  /\ order = <<>>
  /\ total = Zero
  /\ nDone = 0
  /\ result = None
  /\ pc = "run"

\* The sequential loop over the M paths.
Init == InitWith(1, Params)

\* The paths dealt to workers, each with its own state and its own draws.
InitPar == InitWith(NumWorkers, ParParams)

StartPath(w) ==
  /\ pc = "run"
  /\ loc[w].cur = 0
  /\ next <= p.M
  /\ loc' = [loc EXCEPT ![w] = PathStart(p, loc[w], next)]
  /\ hist' = [hist EXCEPT ![next].S = <<p.S0>>]
  /\ next' = next + 1
  /\ UNCHANGED <<p, nw, price, order, total, nDone, result, pc>>

Step(w) ==
  /\ pc = "run"
  /\ loc[w].cur # 0
  /\ loc[w].t < p.n
  /\ \E xi \in Xi, eta \in Eta :
       LET st == PathStep(p, loc[w], xi, eta)
           m == loc[w].cur
       IN  /\ loc' = [loc EXCEPT ![w] = st]
           /\ hist' = [hist EXCEPT ![m] =
                         [xi |-> Append(@.xi, xi), eta |-> Append(@.eta, eta),
                          sigma |-> Append(@.sigma, Sigma(loc[w].h)),
                          S |-> Append(@.S, st.S)]]
  /\ UNCHANGED <<p, nw, next, price, order, total, nDone, result, pc>>

EndPath(w) ==
  /\ pc = "run"
  /\ loc[w].cur # 0
  /\ loc[w].t = p.n
  /\ price' = [price EXCEPT ![loc[w].cur] = loc[w].S]
  /\ order' = Append(order, loc[w].cur)
  /\ total' = Accumulate(total, loc[w].S, p.K)
  /\ nDone' = nDone + 1
  /\ loc' = [loc EXCEPT ![w].cur = 0]
  /\ UNCHANGED <<p, nw, next, hist, result, pc>>

Finish ==
  /\ pc = "run"
  /\ nDone = p.M
  /\ result' = Estimate(p.beta, p.n, p.M, total)
  /\ pc' = "done"
  /\ UNCHANGED <<p, nw, next, loc, hist, price, order, total, nDone>>

Next ==
  \/ \E w \in Workers : StartPath(w)
  \/ \E w \in Workers : Step(w)
  \/ \E w \in Workers : EndPath(w)
  \/ Finish

Spec == Init /\ [][Next]_vars

SpecPar == InitPar /\ [][Next]_vars

\* ------------------------------------------------------------- claims
Ended(m) == price[m] # None

\* sum_{k=1..m} max{pr[k] - K, 0}, written out
RECURSIVE SumPayoff(_, _, _)
SumPayoff(pr, K, m) ==
  IF m = 0 THEN Zero
  ELSE RAdd(SumPayoff(pr, K, m - 1),
            IF RLt(K, pr[m]) THEN RSub(pr[m], K) ELSE Zero)

\* sum_{k=1..m} pr[k]
RECURSIVE SumPrice(_, _)
SumPrice(pr, m) == IF m = 0 THEN Zero ELSE RAdd(SumPrice(pr, m - 1), pr[m])

\* C1: the returned estimate is beta^n (1/M) sum_{m=1..M} max{S_n^m - K, 0}
\* over the terminal prices of the M paths: the sum is of undiscounted
\* payoffs, the one discount beta^n is on the mean, and the division is by M,
\* the number of all paths.
C1_EstimateIsDiscountedMean ==
  pc = "done" =>
    /\ \A m \in Paths : Ended(m)
    /\ total = SumPayoff(price, p.K, p.M)
    /\ RMul(result, R(p.M, 1)) = RMul(RPow(p.beta, p.n), SumPayoff(price, p.K, p.M))

C1_Witness ==
  /\ pc = "done"
  /\ p.n >= 2 /\ p.M >= 2 /\ p.beta # One
  /\ \E a, b \in Paths : RLt(p.K, price[a]) /\ RLt(price[b], p.K)
  /\ RLt(Zero, result)

\* C3: every payoff max{S_n^m - K, 0} is non-negative, every partial sum of
\* payoffs is non-negative, and the returned estimate is non-negative.
C3_NonNegative ==
  /\ \A m \in Paths : Ended(m) => RLe(Zero, Payoff(price[m], p.K))
  /\ RLe(Zero, total)
  /\ pc = "done" => RLe(Zero, result)

C3_Witness ==
  /\ pc = "done"
  /\ \E a, b \in Paths : RLt(price[a], p.K) /\ RLt(p.K, price[b])
  /\ RLt(Zero, total)

\* price_option on the terminal prices pr[1..m] with strike K.
RECURSIVE SumOn(_, _, _)
SumOn(pr, K, m) == IF m = 0 THEN Zero ELSE Accumulate(SumOn(pr, K, m - 1), pr[m], K)

EstimateOn(pr, q, K) == Estimate(q.beta, q.n, q.M, SumOn(pr, K, q.M))

\* C4: on the same paths and with all other parameters fixed, a larger strike
\* gives no larger estimate: P0_hat(K2) <= P0_hat(K1) for K1 <= K2.
C4_StrikeMonotone ==
  pc = "done" =>
    \A K2 \in Strikes :
      /\ RLe(p.K, K2) => RLe(EstimateOn(price, p, K2), result)
      /\ RLe(K2, p.K) => RLe(result, EstimateOn(price, p, K2))

C4_Witness ==
  /\ pc = "done"
  /\ p.M >= 2
  /\ \E K2 \in Strikes : RLt(p.K, K2) /\ RLt(EstimateOn(price, p, K2), result)
  /\ \E K2 \in Strikes : RLt(K2, p.K) /\ RLt(result, EstimateOn(price, p, K2))

\* The state of a path after k steps of the sequential loop, from (h0, S0),
\* on the innovations xi[1..k] and eta[1..k].
RECURSIVE PathAfter(_, _, _, _)
PathAfter(q, xi, eta, k) ==
  IF k = 0 THEN [cur |-> 0, t |-> 0, h |-> q.h0, S |-> q.S0]
  ELSE PathStep(q, PathAfter(q, xi, eta, k - 1), xi[k], eta[k])

\* C6: whatever the interleaving of the workers' steps, every path runs from
\* (h0, S0) on its own innovations alone, its terminal price is the one the
\* sequential loop computes from those innovations, and the estimate is the
\* sequential loop's estimate on those prices.
C6_PathsIndependent ==
  /\ \A w \in Workers :
       loc[w].cur # 0 =>
         PathAfter(p, hist[loc[w].cur].xi, hist[loc[w].cur].eta, loc[w].t)
           = [loc[w] EXCEPT !.cur = 0]
  /\ pc = "done" =>
       /\ \A m \in Paths :
            price[m] = PathAfter(p, hist[m].xi, hist[m].eta, p.n).S
       /\ result = EstimateOn(price, p, p.K)

C6_Witness ==
  /\ pc = "done"
  /\ nw >= 2 /\ p.n >= 1
  /\ order[1] # 1
  /\ \E a, b \in Paths : price[a] # price[b] /\ hist[a].eta # hist[b].eta
  /\ RLt(Zero, result)

\* C7 as stated: with nu = 0 the volatility is exp(h0) on every step of every
\* path, whatever rho and h0.
C7_ConstantForAllRhoH0 ==
  p.nu = Zero =>
    \A m \in Paths : \A i \in DOMAIN hist[m].sigma : hist[m].sigma[i] = Exp(p.h0)

\* C7, amended: with nu = 0 the volatility of step t is exp(rho^t h0), whatever
\* the draws; it is exp(h0) on every step when h0 = 0 or rho = 1, and then
\* every return is mu + exp(h0) xi.
C7_DeterministicVolatility ==
  p.nu = Zero =>
    \A m \in Paths : \A i \in DOMAIN hist[m].sigma :
      /\ hist[m].sigma[i] = Exp(RMul(RPow(p.rho, i - 1), p.h0))
      /\ (p.h0 = Zero \/ p.rho = One) =>
           /\ hist[m].sigma[i] = Exp(p.h0)
           /\ hist[m].S[i + 1] =
                RMul(hist[m].S[i],
                     Exp(RAdd(p.mu, RMul(Exp(p.h0), hist[m].xi[i]))))

C7_Witness ==
  /\ p.nu = Zero /\ p.rho = One /\ p.h0 = R(-1, 1)
  /\ \E m \in Paths : Len(hist[m].sigma) >= 2 /\ hist[m].eta[1] = One

\* C8: with K = 0 every payoff is the path's terminal price, the sum of the
\* payoffs is the sum of the terminal prices, and the estimate is beta^n times
\* their mean.
C8_ZeroStrike ==
  p.K = Zero =>
    /\ \A m \in Paths : Ended(m) => Payoff(price[m], p.K) = price[m]
    /\ total = SumPrice([m \in Paths |-> IF Ended(m) THEN price[m] ELSE Zero], p.M)
    /\ pc = "done" =>
         RMul(result, R(p.M, 1)) = RMul(RPow(p.beta, p.n), SumPrice(price, p.M))

C8_Witness ==
  /\ pc = "done" /\ p.K = Zero
  /\ p.M >= 2 /\ p.n >= 1 /\ p.beta # One
  /\ price[1] # price[2]

\* h_t from h0 and eta[1..t]
RECURSIVE HAt(_, _, _)
HAt(q, eta, t) ==
  IF t = 0 THEN q.h0
  ELSE RAdd(RMul(q.rho, HAt(q, eta, t - 1)), RMul(q.nu, eta[t]))

\* S0 prod_{t=0..k-1} exp(mu + exp(h_t) xi[t+1])
RECURSIVE ClosedPrice(_, _, _, _)
ClosedPrice(q, xi, eta, k) ==
  IF k = 0 THEN q.S0
  ELSE RMul(ClosedPrice(q, xi, eta, k - 1),
            Exp(RAdd(q.mu, RMul(Exp(HAt(q, eta, k - 1)), xi[k]))))

\* C9: a path takes exactly n steps, each with one xi and one eta; the return
\* of step t uses exp(h_t), h_t being the value before the step's update, so
\* S_n = S0 prod_t exp(mu + exp(h_t) xi_{t+1}) is decided by xi[1..n] and
\* eta[1..n-1] (eta_n plays no part), and with n = 0 it is S0.
C9_StepsAndTiming ==
  \A m \in Paths :
    /\ Len(hist[m].xi) = Len(hist[m].eta)
    /\ Len(hist[m].xi) <= p.n
    /\ \A w \in Workers : loc[w].cur = m => loc[w].t = Len(hist[m].xi)
    /\ Ended(m) =>
         /\ Len(hist[m].xi) = p.n
         /\ price[m] =
              ClosedPrice(p, hist[m].xi,
                          IF p.n = 0 THEN <<>> ELSE SubSeq(hist[m].eta, 1, p.n - 1),
                          p.n)
         /\ p.n = 0 => price[m] = p.S0

C9_Witness ==
  \E m \in Paths :
    /\ Ended(m)
    /\ p.n >= 2 /\ p.nu # Zero
    /\ hist[m].sigma[2] # hist[m].sigma[1]
    /\ hist[m].eta[p.n] = One /\ hist[m].eta[1] # One

\* C10: the price of every path is strictly positive at every step 0..n.
C10_PricePositive ==
  /\ \A m \in Paths : \A i \in DOMAIN hist[m].S : RLt(Zero, hist[m].S[i])
  /\ \A w \in Workers : loc[w].cur # 0 => RLt(Zero, loc[w].S)
  /\ \A m \in Paths : Ended(m) => RLt(Zero, price[m])

C10_Witness ==
  \E m \in Paths :
    /\ Ended(m)
    /\ Len(hist[m].S) >= 3
    /\ RLt(hist[m].S[3], R(1, 4))
    /\ RLt(hist[m].S[3], hist[m].S[2])

====
